---- MODULE Spec2Model ----
(***************************************************************************)
(* Account-management operations of graphene/chain/protocol/account.hpp:   *)
(* the twelve operation structs, their fee_payer / validate /              *)
(* calculate_fee / get_required_*_authorities members and their reflected  *)
(* (serialized) field lists, driven through the life of one operation:     *)
(* constructed, serialized, received, validated, authorized, applied or    *)
(* rejected.                                                               *)
(***************************************************************************)
EXTENDS Integers, Sequences, FiniteSets, TLC

(* ---------------- bounds of the model ---------------- *)
MaxAccountId == 1
MaxFeeAmount == 1
MaxFeeParam == 1
MaxEmitOps == 2

(* ---------------- program constants ---------------- *)
\* uint8_t new_listing: the largest value of the field's type
MaxUInt8 == 255
\* FC_ASSERT(new_listing < 0x4)
ListingLimit == 4

(* ---------------- primitive types ---------------- *)
\* optional<T>: the empty set is "absent", a singleton is "present"
Optional(S) == {{}} \cup {{x} : x \in S}
valid(o) == o # {}
value(o) == CHOOSE x \in o : TRUE

account_id_type == 0..MaxAccountId
share_type == (0 - MaxFeeAmount)..MaxFeeAmount
asset == [amount : share_type, asset_id : {0}]
authority == {1}
special_authority == {0}
buyback_account_options == [asset_to_buy_issuer : account_id_type]
\* extensions_type = flat_set<future_extensions>, future_extensions = static_variant<void_t>
extensions_type == SUBSET {0}
uint8_t == 0..MaxUInt8

account_options ==
  [memo_key : {0}, voting_account : {0}, num_witness : {0}, num_committee : {0},
   votes : {{}}, extensions : {{}}]

account_create_operation_ext ==
  [null_ext : Optional({0}),
   owner_special_authority : Optional(special_authority),
   active_special_authority : Optional(special_authority),
   buyback_options : Optional(buyback_account_options)]

ext_account_update_operation ==
  [null_ext : Optional({0}),
   owner_special_authority : Optional(special_authority),
   active_special_authority : Optional(special_authority)]

(* ---------------- the twelve operation structs ---------------- *)
account_create_operation ==
  [which : {"account_create"}, fee : asset, kind : {0},
   registrar : account_id_type, referrer : account_id_type, referrer_percent : {0},
   name : {"alice"}, owner : authority, active : authority,
   options : account_options, extensions : account_create_operation_ext]

account_update_operation ==
  [which : {"account_update"}, fee : asset, account : account_id_type,
   owner : Optional(authority), active : Optional(authority),
   new_options : Optional(account_options),
   extensions : ext_account_update_operation]

account_whitelist_operation ==
  [which : {"account_whitelist"}, fee : asset,
   authorizing_account : account_id_type, account_to_list : account_id_type,
   new_listing : uint8_t, extensions : extensions_type]

account_upgrade_operation ==
  [which : {"account_upgrade"}, fee : asset, account_to_upgrade : account_id_type,
   upgrade_to_lifetime_member : BOOLEAN, extensions : extensions_type]

account_transfer_operation ==
  [which : {"account_transfer"}, fee : asset, account_id : account_id_type,
   new_owner : account_id_type, extensions : extensions_type]

tether_accounts_operation ==
  [which : {"tether_accounts"}, fee : asset, wallet_account : account_id_type,
   vault_account : account_id_type, extensions : extensions_type]

change_public_keys_operation ==
  [which : {"change_public_keys"}, fee : asset, account : account_id_type,
   active : Optional(authority), owner : Optional(authority),
   extensions : extensions_type]

set_roll_back_enabled_operation ==
  [which : {"set_roll_back_enabled"}, fee : asset, account : account_id_type,
   roll_back_enabled : BOOLEAN, extensions : extensions_type]

roll_back_public_keys_operation ==
  [which : {"roll_back_public_keys"}, fee : asset, authority : account_id_type,
   account : account_id_type, extensions : extensions_type]

upgrade_account_cycles_operation ==
  [which : {"upgrade_account_cycles"}, fee : asset, account : account_id_type,
   description : {"d"}, extensions : extensions_type]

set_starting_cycle_asset_amount_operation ==
  [which : {"set_starting_cycle_asset_amount"}, fee : asset, issuer : account_id_type,
   new_amount : {0, 1}, extensions : extensions_type]

set_chain_authority_operation ==
  [which : {"set_chain_authority"}, fee : asset, issuer : account_id_type,
   account : account_id_type, kind : {"root"}, extensions : extensions_type]

Operations ==
  account_create_operation \cup account_update_operation
    \cup account_whitelist_operation \cup account_upgrade_operation
    \cup account_transfer_operation \cup tether_accounts_operation
    \cup change_public_keys_operation \cup set_roll_back_enabled_operation
    \cup roll_back_public_keys_operation \cup upgrade_account_cycles_operation
    \cup set_starting_cycle_asset_amount_operation \cup set_chain_authority_operation

(* ---------------- fee_payer() ---------------- *)
\* variant: the referrer pays
account_create_operation_fee_payer_Referrer(op) == op.referrer
account_create_operation_fee_payer(op) == op.registrar
account_update_operation_fee_payer(op) == op.account
account_whitelist_operation_fee_payer(op) == op.authorizing_account
account_upgrade_operation_fee_payer(op) == op.account_to_upgrade
account_transfer_operation_fee_payer(op) == op.account_id
tether_accounts_operation_fee_payer(op) == op.wallet_account
change_public_keys_operation_fee_payer(op) == op.account
set_roll_back_enabled_operation_fee_payer(op) == op.account
\* variant: the target account pays
roll_back_public_keys_operation_fee_payer_Target(op) == op.account
roll_back_public_keys_operation_fee_payer(op) == op.authority
upgrade_account_cycles_operation_fee_payer(op) == op.account
set_starting_cycle_asset_amount_operation_fee_payer(op) == op.issuer
set_chain_authority_operation_fee_payer(op) == op.issuer

fee_payer(op) ==
  CASE op.which = "account_create" -> account_create_operation_fee_payer(op)
    [] op.which = "account_update" -> account_update_operation_fee_payer(op)
    [] op.which = "account_whitelist" -> account_whitelist_operation_fee_payer(op)
    [] op.which = "account_upgrade" -> account_upgrade_operation_fee_payer(op)
    [] op.which = "account_transfer" -> account_transfer_operation_fee_payer(op)
    [] op.which = "tether_accounts" -> tether_accounts_operation_fee_payer(op)
    [] op.which = "change_public_keys" -> change_public_keys_operation_fee_payer(op)
    [] op.which = "set_roll_back_enabled" -> set_roll_back_enabled_operation_fee_payer(op)
    [] op.which = "roll_back_public_keys" -> roll_back_public_keys_operation_fee_payer(op)
    [] op.which = "upgrade_account_cycles" -> upgrade_account_cycles_operation_fee_payer(op)
    [] op.which = "set_starting_cycle_asset_amount" ->
         set_starting_cycle_asset_amount_operation_fee_payer(op)
    [] op.which = "set_chain_authority" -> set_chain_authority_operation_fee_payer(op)

(* ---------------- authority requirement emission ---------------- *)
\* each takes the caller's flat_set and returns it after the inserts
\* variant: the buyback asset issuer is not inserted
account_create_operation_get_required_active_authorities_NoBuyback(op, a) ==
  a \cup {op.registrar}

account_create_operation_get_required_active_authorities(op, a) ==
  LET a1 == a \cup {op.registrar}
  IN  IF valid(op.extensions.buyback_options)
        THEN a1 \cup {value(op.extensions.buyback_options).asset_to_buy_issuer}
        ELSE a1

\* variant: the owner_special_authority extension is not looked at
account_update_operation_is_owner_update_NoExtension(op) == valid(op.owner)

account_update_operation_is_owner_update(op) ==
  valid(op.owner) \/ valid(op.extensions.owner_special_authority)

account_update_operation_get_required_owner_authorities(op, a) ==
  IF account_update_operation_is_owner_update(op) THEN a \cup {op.account} ELSE a

account_update_operation_get_required_active_authorities(op, a) ==
  IF ~account_update_operation_is_owner_update(op) THEN a \cup {op.account} ELSE a

\* variant: only the wallet account is inserted
tether_accounts_operation_get_required_active_authorities_WalletOnly(op, a) ==
  a \cup {op.wallet_account}

tether_accounts_operation_get_required_active_authorities(op, a) ==
  (a \cup {op.wallet_account}) \cup {op.vault_account}

change_public_keys_operation_is_owner_update(op) == valid(op.owner)

\* variant: the set is assigned instead of inserted into
change_public_keys_operation_get_required_owner_authorities_Overwrite(op, a) ==
  IF change_public_keys_operation_is_owner_update(op) THEN {op.account} ELSE a

change_public_keys_operation_get_required_owner_authorities(op, a) ==
  IF change_public_keys_operation_is_owner_update(op) THEN a \cup {op.account} ELSE a

change_public_keys_operation_get_required_active_authorities(op, a) ==
  IF ~change_public_keys_operation_is_owner_update(op) THEN a \cup {op.account} ELSE a

\* base_operation's members, inherited by the structs that declare none
base_operation_get_required_owner_authorities(op, a) == a
base_operation_get_required_active_authorities(op, a) == a

get_required_owner_authorities(op, a) ==
  CASE op.which = "account_update" ->
         account_update_operation_get_required_owner_authorities(op, a)
    [] op.which = "change_public_keys" ->
         change_public_keys_operation_get_required_owner_authorities(op, a)
    [] OTHER -> base_operation_get_required_owner_authorities(op, a)

get_required_active_authorities(op, a) ==
  CASE op.which = "account_create" ->
         account_create_operation_get_required_active_authorities(op, a)
    [] op.which = "account_update" ->
         account_update_operation_get_required_active_authorities(op, a)
    [] op.which = "tether_accounts" ->
         tether_accounts_operation_get_required_active_authorities(op, a)
    [] op.which = "change_public_keys" ->
         change_public_keys_operation_get_required_active_authorities(op, a)
    [] OTHER -> base_operation_get_required_active_authorities(op, a)

\* the structs that declare an authority emission member of their own
DeclaresEmission ==
  {"account_create", "account_update", "tether_accounts", "change_public_keys"}

(* ---------------- validate() ---------------- *)
\* variant: the listing bound is off by one
account_whitelist_operation_validate_OffByOne(op) ==
  op.fee.amount >= 0 /\ op.new_listing <= ListingLimit

account_whitelist_operation_validate(op) ==
  op.fee.amount >= 0 /\ op.new_listing < ListingLimit

\* variant: only the fee is checked
upgrade_account_cycles_operation_validate_FeeCheck(op) == op.fee.amount >= 0

upgrade_account_cycles_operation_validate(op) == FALSE

set_starting_cycle_asset_amount_operation_validate(op) == TRUE

set_chain_authority_operation_validate(op) == TRUE

\* validate() bodies that are only declared in this header
account_create_operation_validate(op) ==
  op.fee.amount >= 0 /\ op.referrer_percent <= 10000

declared_only_validate(op) == op.fee.amount >= 0

validate(op) ==
  CASE op.which = "account_whitelist" -> account_whitelist_operation_validate(op)
    [] op.which = "upgrade_account_cycles" -> upgrade_account_cycles_operation_validate(op)
    [] op.which = "set_starting_cycle_asset_amount" ->
         set_starting_cycle_asset_amount_operation_validate(op)
    [] op.which = "set_chain_authority" -> set_chain_authority_operation_validate(op)
    [] op.which = "account_create" -> account_create_operation_validate(op)
    [] OTHER -> declared_only_validate(op)

(* ---------------- reflection and wire encoding ---------------- *)
Range(q) == {q[i] : i \in 1..Len(q)}

\* the data members of each struct, in declaration order
Fields(which) ==
  CASE which = "account_create" ->
         <<"fee", "kind", "registrar", "referrer", "referrer_percent", "name",
           "owner", "active", "options", "extensions">>
    [] which = "account_update" ->
         <<"fee", "account", "owner", "active", "new_options", "extensions">>
    [] which = "account_whitelist" ->
         <<"fee", "authorizing_account", "account_to_list", "new_listing", "extensions">>
    [] which = "account_upgrade" ->
         <<"fee", "account_to_upgrade", "upgrade_to_lifetime_member", "extensions">>
    [] which = "account_transfer" -> <<"fee", "account_id", "new_owner", "extensions">>
    [] which = "tether_accounts" ->
         <<"fee", "wallet_account", "vault_account", "extensions">>
    [] which = "change_public_keys" -> <<"fee", "account", "active", "owner", "extensions">>
    [] which = "set_roll_back_enabled" ->
         <<"fee", "account", "roll_back_enabled", "extensions">>
    [] which = "roll_back_public_keys" -> <<"fee", "authority", "account", "extensions">>
    [] which = "upgrade_account_cycles" -> <<"fee", "account", "description", "extensions">>
    [] which = "set_starting_cycle_asset_amount" ->
         <<"fee", "issuer", "new_amount", "extensions">>
    [] which = "set_chain_authority" -> <<"fee", "issuer", "account", "kind", "extensions">>

\* the FC_REFLECT member list of each struct: the fields that go on the wire
Reflected(which) ==
  CASE which = "account_create" ->
         <<"fee", "kind", "registrar", "referrer", "referrer_percent", "name",
           "owner", "active", "options">>
    [] which = "account_update" -> <<"fee", "account", "owner", "active", "new_options">>
    [] which = "account_whitelist" ->
         <<"fee", "authorizing_account", "account_to_list", "new_listing", "extensions">>
    [] which = "account_upgrade" ->
         <<"fee", "account_to_upgrade", "upgrade_to_lifetime_member", "extensions">>
    [] which = "account_transfer" -> <<"fee", "account_id", "new_owner", "extensions">>
    [] which = "tether_accounts" ->
         <<"fee", "wallet_account", "vault_account", "extensions">>
    [] which = "change_public_keys" -> <<"fee", "account", "active", "owner">>
    [] which = "set_roll_back_enabled" ->
         <<"fee", "account", "roll_back_enabled", "extensions">>
    [] which = "roll_back_public_keys" -> <<"fee", "authority", "account", "extensions">>
    [] which = "upgrade_account_cycles" -> <<"fee", "account", "description", "extensions">>
    [] which = "set_starting_cycle_asset_amount" ->
         <<"fee", "issuer", "new_amount", "extensions">>
    [] which = "set_chain_authority" -> <<"fee", "issuer", "account", "kind", "extensions">>

\* the declared type of a member
FieldType(which, f) ==
  CASE f = "fee" -> "asset"
    [] f = "kind" -> IF which = "account_create" THEN "int" ELSE "string"
    [] f \in {"name", "description"} -> "string"
    [] f \in {"upgrade_to_lifetime_member", "roll_back_enabled"} -> "bool"
    [] f \in {"owner", "active"} ->
         IF which = "account_create" THEN "authority" ELSE "optional_authority"
    [] f = "options" -> "account_options"
    [] f = "new_options" -> "optional_account_options"
    [] f = "extensions" ->
         IF which = "account_create" THEN "ext_create"
         ELSE IF which = "account_update" THEN "ext_update"
         ELSE "extensions_type"
    [] OTHER -> "int"

\* a flat_set of small integers in ascending order
RECURSIVE SetToSeq(_)
SetToSeq(s) ==
  IF s = {} THEN << >>
  ELSE LET m == CHOOSE x \in s : \A y \in s : x <= y
       IN  <<m>> \o SetToSeq(s \ {m})

\* a container goes out as its size followed by its elements
pack_set(s) == <<Cardinality(s)>> \o SetToSeq(s)

\* FC_REFLECT(account_options, (memo_key)(voting_account)(num_witness)(num_committee)(votes)(extensions))
pack_account_options(v) ==
  <<v.memo_key, v.voting_account, v.num_witness, v.num_committee>>
    \o pack_set(v.votes) \o pack_set(v.extensions)

unpack_account_options(w) ==
  LET nv == w[5]
      ne == w[6 + nv]
  IN  [memo_key |-> w[1], voting_account |-> w[2], num_witness |-> w[3],
       num_committee |-> w[4],
       votes |-> {w[i] : i \in 6..(5 + nv)},
       extensions |-> {w[i] : i \in (7 + nv)..(6 + nv + ne)}]

\* the encoding of one member; an optional carries a present/absent discriminant
pack_field(t, v) ==
  CASE t = "asset" -> <<v.amount, v.asset_id>>
    [] t = "int" -> <<v>>
    [] t = "string" -> <<v>>
    [] t = "authority" -> <<v>>
    [] t = "bool" -> <<IF v THEN 1 ELSE 0>>
    [] t = "optional_authority" -> IF valid(v) THEN <<1, value(v)>> ELSE <<0>>
    [] t = "account_options" -> pack_account_options(v)
    [] t = "optional_account_options" ->
         IF valid(v) THEN <<1>> \o pack_account_options(value(v)) ELSE <<0>>
    [] t = "extensions_type" -> pack_set(v)

unpack_field(t, w) ==
  CASE t = "asset" -> [amount |-> w[1], asset_id |-> w[2]]
    [] t = "int" -> w[1]
    [] t = "string" -> w[1]
    [] t = "authority" -> w[1]
    [] t = "bool" -> w[1] = 1
    [] t = "optional_authority" -> IF w[1] = 1 THEN {w[2]} ELSE {}
    [] t = "account_options" -> unpack_account_options(w)
    [] t = "optional_account_options" ->
         IF w[1] = 1 THEN {unpack_account_options(Tail(w))} ELSE {}
    [] t = "extensions_type" -> {w[i] : i \in 2..(1 + w[1])}

\* the value a member has in a default-constructed struct
default_value(t) ==
  CASE t = "asset" -> [amount |-> 0, asset_id |-> 0]
    [] t = "int" -> 0
    [] t = "string" -> ""
    [] t = "authority" -> 0
    [] t = "bool" -> FALSE
    [] t \in {"optional_authority", "optional_account_options", "extensions_type"} -> {}
    [] t = "account_options" ->
         [memo_key |-> 0, voting_account |-> 0, num_witness |-> 0, num_committee |-> 0,
          votes |-> {}, extensions |-> {}]
    [] t = "ext_create" ->
         [null_ext |-> {}, owner_special_authority |-> {},
          active_special_authority |-> {}, buyback_options |-> {}]
    [] t = "ext_update" ->
         [null_ext |-> {}, owner_special_authority |-> {}, active_special_authority |-> {}]

\* serialization visits the reflected members in order
pack(op) ==
  LET rs == Reflected(op.which)
  IN  [i \in 1..Len(rs) |-> pack_field(FieldType(op.which, rs[i]), op[rs[i]])]

\* deserialization default-constructs the struct and reads the reflected members
unpack(which, w) ==
  LET rs == Reflected(which)
      pos(f) == CHOOSE i \in 1..Len(rs) : rs[i] = f
  IN  [f \in {"which"} \cup Range(Fields(which)) |->
         IF f = "which" THEN which
         ELSE IF f \in Range(rs)
           THEN unpack_field(FieldType(which, f), w[pos(f)])
           ELSE default_value(FieldType(which, f))]

\* the number of encoded units of an operation
RECURSIVE pack_size_of(_)
pack_size_of(w) == IF w = << >> THEN 0 ELSE Len(Head(w)) + pack_size_of(Tail(w))
pack_size(op) == pack_size_of(pack(op))

(* ---------------- fee parameters and calculate_fee() ---------------- *)
FeeParamValue == 0..MaxFeeParam

\* the members of each struct's fee_parameters_type
fee_parameters_fields(which) ==
  CASE which = "account_update" -> {"fee", "price_per_kbyte"}
    [] which = "account_whitelist" -> {"fee"}
    [] which = "account_upgrade" -> {"membership_annual_fee", "membership_lifetime_fee"}
    [] which = "account_transfer" -> {"fee"}
    [] OTHER -> {}

\* every value of the struct's fee_parameters_type (the empty struct has one value)
fee_parameters_type(which) == [fee_parameters_fields(which) -> FeeParamValue]

account_create_operation_calculate_fee(op, k) == 0
\* variant: the declared fee is returned
tether_accounts_operation_calculate_fee_Declared(op, k) == op.fee.amount
tether_accounts_operation_calculate_fee(op, k) == 0
change_public_keys_operation_calculate_fee(op, k) == 0
set_roll_back_enabled_operation_calculate_fee(op, k) == 0
roll_back_public_keys_operation_calculate_fee(op, k) == 0
upgrade_account_cycles_operation_calculate_fee(op, k) == 0
set_starting_cycle_asset_amount_operation_calculate_fee(op, k) == 0
set_chain_authority_operation_calculate_fee(op, k) == 0

\* the structs whose calculate_fee body is "return 0"
HardCodedZeroFee ==
  {"account_create", "tether_accounts", "change_public_keys", "set_roll_back_enabled",
   "roll_back_public_keys", "upgrade_account_cycles", "set_starting_cycle_asset_amount",
   "set_chain_authority"}

\* calculate_fee members that are not defined in this header
base_operation_calculate_fee(op, k) == k["fee"]

\* a fee that grows with the serialized size, per kilobyte
account_update_operation_calculate_fee(op, k) ==
  k["fee"] + ((pack_size(op) * k["price_per_kbyte"]) \div 1024)

account_upgrade_operation_calculate_fee(op, k) ==
  IF op.upgrade_to_lifetime_member
    THEN k["membership_lifetime_fee"] ELSE k["membership_annual_fee"]

calculate_fee(op, k) ==
  CASE op.which = "account_create" -> account_create_operation_calculate_fee(op, k)
    [] op.which = "tether_accounts" -> tether_accounts_operation_calculate_fee(op, k)
    [] op.which = "change_public_keys" -> change_public_keys_operation_calculate_fee(op, k)
    [] op.which = "set_roll_back_enabled" ->
         set_roll_back_enabled_operation_calculate_fee(op, k)
    [] op.which = "roll_back_public_keys" ->
         roll_back_public_keys_operation_calculate_fee(op, k)
    [] op.which = "upgrade_account_cycles" ->
         upgrade_account_cycles_operation_calculate_fee(op, k)
    [] op.which = "set_starting_cycle_asset_amount" ->
         set_starting_cycle_asset_amount_operation_calculate_fee(op, k)
    [] op.which = "set_chain_authority" -> set_chain_authority_operation_calculate_fee(op, k)
    [] op.which = "account_update" -> account_update_operation_calculate_fee(op, k)
    [] op.which = "account_upgrade" -> account_upgrade_operation_calculate_fee(op, k)
    [] OTHER -> base_operation_calculate_fee(op, k)

(* ---------------- operation dispatch ---------------- *)
\* the dispatch over the tagged operation set: a struct that declares no
\* emission of its own requires the active authority of its fee payer
operation_get_required_owner(op, o) == get_required_owner_authorities(op, o)

operation_get_required_active(op, a) ==
  IF op.which \in DeclaresEmission
    THEN get_required_active_authorities(op, a)
    ELSE get_required_active_authorities(op, a) \cup {fee_payer(op)}

(* ---------------- state ---------------- *)
VARIABLES
  op,            \* the operation, an immutable value
  phase,         \* "constructed", "validated", "authorized", "applied", "rejected"
  owner,         \* the caller's owner requirement set
  active,        \* the caller's active requirement set
  calls,         \* which emission members the signer has called on op
  wire,          \* the serialized operation, << >> before serialization
  decoded,       \* the operation read back from the wire (an optional)
  payer,         \* the account charged at application (an optional)
  fee_required,  \* the fee computed at application (an optional)
  error,         \* why the operation was rejected: "none", "ValidationError", "AuthorityError"
  emitted        \* every emission call made into owner/active so far: [op, member]

vars ==
  <<op, phase, owner, active, calls, wire, decoded, payer, fee_required, error, emitted>>

Init ==
  /\ op \in Operations
  /\ phase = "constructed"
  /\ owner = {}
  /\ active = {}
  /\ calls = {}
  /\ wire = << >>
  /\ decoded = {}
  /\ payer = {}
  /\ fee_required = {}
  /\ error = "none"
  /\ emitted = {}

(* ---------------- steps ---------------- *)
\* the signer asks the operation for its owner requirements
GetRequiredOwnerAuthorities ==
  /\ phase = "constructed" /\ wire = << >> /\ "owner" \notin calls
  /\ owner' = get_required_owner_authorities(op, owner)
  /\ calls' = calls \cup {"owner"}
  /\ emitted' = emitted \cup {[op |-> op, member |-> "owner"]}
  /\ UNCHANGED <<op, phase, active, wire, decoded, payer, fee_required, error>>

\* the signer asks the operation for its active requirements
GetRequiredActiveAuthorities ==
  /\ phase = "constructed" /\ wire = << >> /\ "active" \notin calls
  /\ active' = get_required_active_authorities(op, active)
  /\ calls' = calls \cup {"active"}
  /\ emitted' = emitted \cup {[op |-> op, member |-> "active"]}
  /\ UNCHANGED <<op, phase, owner, wire, decoded, payer, fee_required, error>>

\* the operation is serialized into a transaction
Serialize ==
  /\ phase = "constructed" /\ wire = << >> /\ calls = {"owner", "active"}
  /\ wire' = pack(op)
  /\ UNCHANGED <<op, phase, owner, active, calls, decoded, payer, fee_required, error,
                 emitted>>

\* the receiver reads the operation back
Deserialize ==
  /\ wire # << >> /\ decoded = {}
  /\ decoded' = {unpack(op.which, wire)}
  /\ UNCHANGED <<op, phase, owner, active, calls, wire, payer, fee_required, error,
                 emitted>>

\* structural validation: a failed assertion rejects the operation
Validate ==
  /\ phase = "constructed" /\ decoded # {}
  /\ phase' = IF validate(op) THEN "validated" ELSE "rejected"
  /\ error' = IF validate(op) THEN "none" ELSE "ValidationError"
  /\ UNCHANGED <<op, owner, active, calls, wire, decoded, payer, fee_required, emitted>>

\* the dispatch resolves the operation's authority requirements
Dispatch ==
  /\ phase = "validated"
  /\ owner' = operation_get_required_owner(op, owner)
  /\ active' = operation_get_required_active(op, active)
  /\ phase' = "authorized"
  /\ UNCHANGED <<op, calls, wire, decoded, payer, fee_required, error, emitted>>

\* the fee is computed from the type's fee parameters and charged to the fee payer
Apply ==
  /\ phase = "authorized"
  /\ \E k \in fee_parameters_type(op.which) :
       fee_required' = {calculate_fee(op, k)}
  /\ payer' = {fee_payer(op)}
  /\ phase' = "applied"
  /\ UNCHANGED <<op, owner, active, calls, wire, decoded, error, emitted>>

\* the signatures do not satisfy the requirements, or a precondition of application fails
Reject ==
  /\ phase = "authorized"
  /\ phase' = "rejected"
  /\ error' = "AuthorityError"
  /\ UNCHANGED <<op, owner, active, calls, wire, decoded, payer, fee_required, emitted>>

Next ==
  \/ GetRequiredOwnerAuthorities
  \/ GetRequiredActiveAuthorities
  \/ Serialize
  \/ Deserialize
  \/ Validate
  \/ Dispatch
  \/ Apply
  \/ Reject

Spec == Init /\ [][Next]_vars

TypeOK ==
  /\ op \in Operations
  /\ phase \in {"constructed", "validated", "authorized", "applied", "rejected"}
  /\ owner \subseteq account_id_type
  /\ active \subseteq account_id_type
  /\ calls \subseteq {"owner", "active"}
  /\ error \in {"none", "ValidationError", "AuthorityError"}

(* ---------------- properties ---------------- *)
BothCalled == calls = {"owner", "active"}

\* C1: for every account_update and change_public_keys operation, calling both
\* emission members on empty sets puts `account` into exactly one set: the owner
\* set alone when a new owner authority is supplied (or, for account_update, the
\* owner_special_authority extension is set), the active set alone otherwise.
C1_OwnerXorActive ==
  (op.which \in {"account_update", "change_public_keys"} /\ BothCalled) =>
    LET ownerUpdate ==
          IF op.which = "account_update"
            THEN op.owner # {} \/ op.extensions.owner_special_authority # {}
            ELSE op.owner # {}
    IN  /\ (op.account \in owner) # (op.account \in active)
        /\ IF ownerUpdate
             THEN owner = {op.account} /\ active = {}
             ELSE owner = {} /\ active = {op.account}

\* an account_update whose only owner change is the extension has required the owner authority
C1_Witness ==
  /\ op.which = "account_update" /\ BothCalled
  /\ op.owner = {} /\ op.active # {} /\ op.new_options # {}
  /\ op.extensions.owner_special_authority # {}
  /\ owner = {op.account} /\ active = {}

\* C2: for every account_create operation the active set produced is registrar,
\* plus the buyback asset issuer exactly when buyback_options is populated, and
\* nothing is added to the owner set.
C2_AccountCreateActive ==
  (op.which = "account_create" /\ BothCalled) =>
    /\ op.registrar \in active
    /\ active = {op.registrar} \cup
                {b.asset_to_buy_issuer : b \in op.extensions.buyback_options}
    /\ owner = {}

\* an account_create with buyback options of another issuer has required both accounts
C2_Witness ==
  /\ op.which = "account_create" /\ BothCalled
  /\ op.extensions.buyback_options # {}
  /\ \E b \in op.extensions.buyback_options :
       b.asset_to_buy_issuer # op.registrar /\ active = {op.registrar, b.asset_to_buy_issuer}

\* C3: for every tether_accounts operation the active set produced from the empty
\* set is exactly {wallet_account, vault_account}, whatever fee and extensions are,
\* and nothing is added to the owner set.
C3_TetherActive ==
  (op.which = "tether_accounts" /\ BothCalled) =>
    /\ active = {op.wallet_account, op.vault_account}
    /\ owner = {}

\* a tether of two distinct accounts, with a negative fee and an extension, has required both
C3_Witness ==
  /\ op.which = "tether_accounts" /\ BothCalled
  /\ op.wallet_account # op.vault_account
  /\ op.fee.amount < 0 /\ op.extensions # {}
  /\ active = {op.wallet_account, op.vault_account}

\* C4: for every account_whitelist operation validate() succeeds if and only if
\* new_listing < 4 and fee.amount >= 0, and fails with a validation error otherwise.
C4_WhitelistValidate ==
  (op.which = "account_whitelist" /\ phase # "constructed") =>
    LET ok == op.new_listing < 4 /\ op.fee.amount >= 0
    IN  /\ ok <=> error # "ValidationError"
        /\ ~ok <=> (phase = "rejected" /\ error = "ValidationError")

\* a whitelist operation with listing 3 passed validation
C4_Witness ==
  /\ op.which = "account_whitelist" /\ phase = "validated"
  /\ op.new_listing = 3 /\ op.fee.amount = 0

\* a whitelist operation with listing 4 failed validation
C4_WitnessRejected ==
  /\ op.which = "account_whitelist" /\ phase = "rejected" /\ error = "ValidationError"
  /\ op.new_listing = 4 /\ op.fee.amount = 0

\* C5: serializing an operation over its reflected field list and deserializing
\* the result yields a value equal to the original in every field, with and
\* without extension fields set.
C5_RoundTrip == decoded # {} => decoded = {op}

\* the round trip of an operation whose unreflected members hold their default values
RoundTripWithoutUnreflected ==
  (decoded # {} /\ \A f \in Range(Fields(op.which)) \ Range(Reflected(op.which)) :
                     op[f] = default_value(FieldType(op.which, f)))
    => decoded = {op}

\* C6: no operation with fee.amount < 0 passes structural validation: once
\* validate() has run on it, it is rejected with a validation error.
C6_NegativeFeeRejected ==
  (op.fee.amount < 0 /\ phase # "constructed") =>
    (phase = "rejected" /\ error = "ValidationError")

\* the fee payer field the data-model table names for each variant
TableFeePayer ==
  CASE op.which = "account_create" -> op.registrar
    [] op.which \in {"account_update", "change_public_keys", "set_roll_back_enabled",
                     "upgrade_account_cycles"} -> op.account
    [] op.which = "account_whitelist" -> op.authorizing_account
    [] op.which = "account_upgrade" -> op.account_to_upgrade
    [] op.which = "account_transfer" -> op.account_id
    [] op.which = "tether_accounts" -> op.wallet_account
    [] op.which = "roll_back_public_keys" -> op.authority
    [] op.which \in {"set_starting_cycle_asset_amount", "set_chain_authority"} -> op.issuer

Resolved == phase = "authorized" \/ phase = "applied" \/ error = "AuthorityError"

C8_EmptyParametersZeroFee ==
  /\ (phase = "applied" /\ op.which \in {"account_create", "tether_accounts",
                                         "change_public_keys", "set_roll_back_enabled",
                                         "roll_back_public_keys", "upgrade_account_cycles",
                                         "set_starting_cycle_asset_amount",
                                         "set_chain_authority"})
       => fee_required = {0}
  /\ \A k \in fee_parameters_type(op.which) :
       op.which \in {"account_create", "tether_accounts", "change_public_keys",
                     "set_roll_back_enabled", "roll_back_public_keys",
                     "upgrade_account_cycles", "set_starting_cycle_asset_amount",
                     "set_chain_authority"}
         => (calculate_fee(op, k) = 0 /\ DOMAIN k = {})
  /\ \A w \in HardCodedZeroFee : fee_parameters_fields(w) = {}
  /\ (\A k \in fee_parameters_type(op.which) : calculate_fee(op, k) = 0)
       => fee_parameters_fields(op.which) = {}

\* a tether_accounts operation that declared a fee of 1 was applied with a computed fee of 0
C8_Witness ==
  /\ op.which = "tether_accounts" /\ phase = "applied"
  /\ op.fee.amount = 1 /\ fee_required = {0}

C10_UpgradeAccountCyclesNeverUsable ==
  op.which = "upgrade_account_cycles" =>
    /\ phase \in {"constructed", "rejected"}
    /\ phase # "constructed" => (phase = "rejected" /\ error = "ValidationError")
    /\ payer = {} /\ fee_required = {}

\* an upgrade_account_cycles operation with a positive fee ended rejected
C10_Witness ==
  /\ op.which = "upgrade_account_cycles" /\ phase = "rejected"
  /\ error = "ValidationError" /\ op.fee.amount > 0 /\ decoded # {}

\* C11: the owner and active requirements an operation emits are the same before
\* and after a wire round trip: the sets the two emission members produce on the
\* decoded operation equal those they produce on the original.
C11_RoundTripKeepsRequirements ==
  \A d \in decoded :
    /\ get_required_owner_authorities(d, {}) = get_required_owner_authorities(op, {})
    /\ get_required_active_authorities(d, {}) = get_required_active_authorities(op, {})

\* the same, for the operations whose unreflected members hold their default values
RoundTripKeepsRequirementsWithoutUnreflected ==
  (\A f \in Range(Fields(op.which)) \ Range(Reflected(op.which)) :
      op[f] = default_value(FieldType(op.which, f)))
    => C11_RoundTripKeepsRequirements

(* ---------------- emission of several operations into the same sets ---------------- *)
\* the operations of a transaction that declare an emission member, over the
\* fields these members read
EmitOperations ==
  [which : {"account_create"}, fee : {[amount |-> 0, asset_id |-> 0]}, kind : {0},
   registrar : account_id_type, referrer : {0}, referrer_percent : {0},
   name : {"alice"}, owner : authority, active : authority,
   options : account_options,
   extensions : [null_ext : {{}}, owner_special_authority : {{}},
                 active_special_authority : {{}},
                 buyback_options : Optional(buyback_account_options)]]
  \cup
  [which : {"account_update"}, fee : {[amount |-> 0, asset_id |-> 0]},
   account : account_id_type, owner : Optional(authority), active : {{}},
   new_options : {{}},
   extensions : [null_ext : {{}}, owner_special_authority : Optional(special_authority),
                 active_special_authority : {{}}]]
  \cup
  [which : {"tether_accounts"}, fee : {[amount |-> 0, asset_id |-> 0]},
   wallet_account : account_id_type, vault_account : account_id_type,
   extensions : {{}}]
  \cup
  [which : {"change_public_keys"}, fee : {[amount |-> 0, asset_id |-> 0]},
   account : account_id_type, active : {{}}, owner : Optional(authority),
   extensions : {{}}]

EmitInit ==
  /\ op \in EmitOperations
  /\ phase = "constructed"
  /\ owner = {}
  /\ active = {}
  /\ calls = {}
  /\ wire = << >>
  /\ decoded = {}
  /\ payer = {}
  /\ fee_required = {}
  /\ error = "none"
  /\ emitted = {}

\* the operations that have emitted so far, with o: at most MaxEmitOps of them
EmitBound(o) == Cardinality({e.op : e \in emitted} \cup {o}) <= MaxEmitOps

\* the caller passes its owner set to an operation of the transaction, in any
\* order and any number of times
EmitOwnerAuthorities ==
  \E o \in EmitOperations :
    /\ EmitBound(o)
    /\ op' = o
    /\ owner' = get_required_owner_authorities(o, owner)
    /\ emitted' = emitted \cup {[op |-> o, member |-> "owner"]}
    /\ calls' = {e.member : e \in {x \in emitted' : x.op = o}}
    /\ UNCHANGED <<phase, active, wire, decoded, payer, fee_required, error>>

\* the caller passes its active set to an operation of the transaction
EmitActiveAuthorities ==
  \E o \in EmitOperations :
    /\ EmitBound(o)
    /\ op' = o
    /\ active' = get_required_active_authorities(o, active)
    /\ emitted' = emitted \cup {[op |-> o, member |-> "active"]}
    /\ calls' = {e.member : e \in {x \in emitted' : x.op = o}}
    /\ UNCHANGED <<phase, owner, wire, decoded, payer, fee_required, error>>

EmitNext == EmitOwnerAuthorities \/ EmitActiveAuthorities

SpecEmit == EmitInit /\ [][EmitNext]_vars

\* every id already in a set stays, an owner call leaves the active set alone and
\* an active call the owner set, and a repeated call changes neither set
EmitFrame ==
  /\ owner \subseteq owner' /\ active \subseteq active'
  /\ \A e \in emitted' \ emitted :
       /\ e.member = "owner" => active' = active
       /\ e.member = "active" => owner' = owner
  /\ emitted' = emitted => (owner' = owner /\ active' = active)

\* the sets are the union of what each operation emits on its own, whatever the order
EmitUnion ==
  /\ owner = UNION {get_required_owner_authorities(e.op, {}) :
                      e \in {x \in emitted : x.member = "owner"}}
  /\ active = UNION {get_required_active_authorities(e.op, {}) :
                       e \in {x \in emitted : x.member = "active"}}

\* C12: authority emission only adds to the caller-supplied sets: each call keeps
\* every id already present, the owner member never changes the active set nor the
\* active member the owner set, repeating a call changes nothing, and the sets
\* equal the union of the per-operation emissions regardless of the order.
C12_EmissionOnlyAdds == [][EmitFrame]_vars /\ []EmitUnion

\* an owner-updating account_update and a tether of two other-or-same accounts have
\* both emitted into the same sets
C12_Witness ==
  /\ Cardinality(emitted) = 4
  /\ \E u, t \in {e.op : e \in emitted} :
       /\ u.which = "account_update" /\ u.owner # {}
       /\ t.which = "tether_accounts" /\ t.wallet_account # t.vault_account
       /\ owner = {u.account}
       /\ active = {t.wallet_account, t.vault_account}

====
